---------------------------- MODULE Spec2Model ----------------------------
(***************************************************************************)
(* A model of src/src/libutil/processes.cc: the process handle Pid, the    *)
(* spawner startProcess with its wrapper in the child, killUser and its    *)
(* helper, runProgram2 / RunningProgram, the two runProgram entry points   *)
(* and the status decoders, with the operating system (fork, waitpid,      *)
(* kill, pipes, the child's termination) as the environment.               *)
(***************************************************************************)
EXTENDS Integers, Sequences, FiniteSets, TLC

(* ------------------------------ bounds -------------------------------- *)

\* Number of processes that may be spawned in one behaviour.
MaxPid == 2
\* Number of EINTR retries of one waitpid loop that the model follows.
MaxRetries == 1

(* --------------------------- program constants ------------------------ *)

SIGKILL == 9

\* The signals a handle may be configured with (SIGKILL, SIGTERM).
KillSignals == {SIGKILL, 15}

(* ------------------- the wait status, as the OS makes it -------------- *)

\* How a process ended: exit(n), or death by signal n (with or without core).
Exited(n) == [how |-> "exit", n |-> n, core |-> FALSE]
Signaled(n, c) == [how |-> "signal", n |-> n, core |-> c]
NoTerm == [how |-> "none", n |-> 0, core |-> FALSE]

\* The other shapes of a wait status: stopped by signal n, continued.
Stopped(n) == [how |-> "stopped", n |-> n, core |-> FALSE]
Continued == [how |-> "continued", n |-> 0, core |-> FALSE]

\* The terminations the environment may produce for a child.
Terms == {Exited(0), Exited(1), Exited(255), Signaled(SIGKILL, FALSE), Signaled(11, TRUE)}

\* The handle layer does not look into the status: one of them is enough there,
\* beside the death by SIGKILL that Pid::kill causes.
PidTerms == {Exited(1)}

\* A waitpid that stored the bare exit code or signal number.
WaitStatusRawCode(t) == t.n

\* The raw status waitpid stores for a termination (for a stop or a
\* continuation, when it is asked to report those).
WaitStatus(t) ==
    IF t.how = "exit" THEN (t.n % 256) * 256
    ELSE IF t.how = "signal" THEN t.n + (IF t.core THEN 128 ELSE 0)
    ELSE IF t.how = "stopped" THEN 127 + t.n * 256
    ELSE 65535

\* <sys/wait.h>, as used by statusToString and statusOk.
WTERMSIG(status) == status % 128
WIFEXITED(status) == WTERMSIG(status) = 0
WEXITSTATUS(status) == (status \div 256) % 256
\* A WIFSIGNALED that takes a stopped process for one killed by signal 127.
WIFSIGNALEDNoStopTest(status) == WTERMSIG(status) # 0

WIFSIGNALED(status) == WTERMSIG(status) # 0 /\ WTERMSIG(status) # 127

\* A statusOk that looks at the exit code only, without WIFEXITED.
statusOkNoExitedTest(status) == WEXITSTATUS(status) = 0

statusOk(status) == WIFEXITED(status) /\ WEXITSTATUS(status) = 0

statusToString(status) ==
    IF ~WIFEXITED(status) \/ WEXITSTATUS(status) # 0 THEN
        IF WIFEXITED(status) THEN "failed with exit code " \o ToString(WEXITSTATUS(status))
        ELSE IF WIFSIGNALED(status) THEN "failed due to signal " \o ToString(WTERMSIG(status))
        ELSE "died abnormally"
    ELSE "succeeded"

(* ------------------------------ state --------------------------------- *)

VARIABLES
    handles,      \* the Pid objects: slot 0 is operator='s local tmp
    procs,        \* the OS's view of each process id
    nextPid,      \* the next process id fork will hand out
    call,         \* the Pid member function in progress (blocked in waitpid)
    ret,          \* how the last Pid member function ended
    interrupted,  \* an interrupt was requested (checkInterrupt will throw)
    pc,           \* where runProgram stands ("off": no runProgram in this run)
    opts,         \* the call: which entry point, which program, what it writes
    childPc,      \* where the forked child stands
    pipe,         \* the bytes the child has written to its stdout so far
    uncaught,     \* std::uncaught_exceptions() at the end of runProgram's try block
    buf,          \* runProgram's local `stdout`
    rp,           \* what RunningProgram::wait and ~RunningProgram did
    res,          \* the pair runProgram(RunOptions &&) returned
    outcome       \* what the caller of the entry point observes

\* The parts of the program that the sections further down model.
VARIABLES
    dec,          \* statusToString / statusOk: the status given and the results
    sp,           \* startProcess in the parent: the options, the callback, the result
    child,        \* the child image: where the wrapper and the callback stand
    ro,           \* the RunOptions that runProgram2 and its child procedure read
    r2,           \* runProgram2 in the parent, statement by statement
    fds,          \* Pipe out: the parent's two ends and the bytes in the pipe
    logger,       \* the shared logger: paused or not, the calls of pause / resume
    stream,       \* the caller of runProgram2: what it read, how its wait() ended
    prog,         \* the program the child executes: what it writes
    ku            \* killUser: the call, its helper's progress, the uid's processes

pidVars == <<handles, procs, nextPid, call, ret, interrupted>>
runVars == <<pc, opts, childPc, pipe, uncaught, buf, rp, res, outcome>>
run2Vars == <<r2, fds, logger, stream, prog>>
auxVars == <<dec, ku, sp, child, ro, run2Vars>>

vars == <<pidVars, runVars, auxVars>>

\* The client of the handle layer holds two Pid variables, 1 and 2; slot 0 is
\* the local `tmp` of Pid::operator=.
Clients == {1, 2}
Slots == {0} \cup Clients
Pids == 1..MaxPid

\* Pid::Pid(): pid = -1; the defaults of separatePG and killSignal.
EmptyPid == [live |-> TRUE, pid |-> -1, separatePG |-> FALSE, killSignal |-> SIGKILL]
\* A variable that holds no object: before construction, after destruction.
NoPid == [live |-> FALSE, pid |-> -1, separatePG |-> FALSE, killSignal |-> SIGKILL]

\* Pid::Pid(pid_t)
PidOf(p) == [EmptyPid EXCEPT !.pid = p]

NoCall == [op |-> "none", h |-> 0, retries |-> 0, target |-> 0, sig |-> 0, sigOk |-> FALSE]
NoRet == [op |-> "none", kind |-> "none", status |-> -1]

NoProc == [st |-> "none", term |-> NoTerm]

NoOpts == [variant |-> "none", program |-> "none", out |-> <<>>]
NoRp == [mode |-> "none", done |-> FALSE, raised |-> "none", status |-> -1, text |-> "",
         target |-> 0, sig |-> 0, calls |-> 0, dtor |-> "none"]
NoRes == [set |-> FALSE, first |-> -1, second |-> <<>>]
NoOutcome == [kind |-> "none", status |-> -1, text |-> "", buffer |-> <<>>]

\* No call of statusToString / statusOk.
NoDec == [term |-> NoTerm, status |-> -1, ok |-> FALSE, text |-> "", done |-> FALSE]

\* No call of startProcess: ProcessOptions, the callback `fun`, the platform
\* of the build, what fork / clone gave and how startProcess ended.
NoSp == [fun |-> "none", cloneFlags |-> FALSE, runExitHandlers |-> FALSE,
         dieWithParent |-> FALSE, linux |-> TRUE,
         forked |-> "none", result |-> "none", pid |-> -1]

\* No child image.  pc: where the wrapper stands; pos, trace: the steps of the
\* child procedure of runProgram2 done so far; thrown: what the callback threw;
\* diag: the wrapper's write to std::cerr; end: how the image ended.
NoChild == [pc |-> "none", via |-> "none", pos |-> 0, trace |-> <<>>, failed |-> FALSE,
            outcome |-> "none", thrown |-> "none", diag |-> "none",
            stdout |-> "inherited", stderr |-> "inherited", end |-> "none"]

\* RunOptions: for the optional members, whether they are set.
NoRo == [program |-> "none", searchPath |-> FALSE, environment |-> FALSE,
         chdir |-> FALSE, gid |-> FALSE, uid |-> FALSE,
         captureStdout |-> FALSE, mergeStderrToStdout |-> FALSE,
         isInteractive |-> FALSE]

\* runProgram2 not called.  deferred: resumeLoggerDefer holds the Finally.
NoR2 == [pc |-> "off", deferred |-> FALSE, result |-> "none"]

\* Pipe out before create(): each side is "none", "open", "closed", or "moved"
\* into the RunningProgram.
NoFds == [readSide |-> "none", writeSide |-> "none", queue |-> <<>>]

NoLogger == [paused |-> FALSE, pauses |-> 0, resumes |-> 0]

\* The caller holds no RunningProgram.  wait: how RunningProgram::wait ended.
NoStream == [has |-> FALSE, got |-> <<>>, eof |-> FALSE, wait |-> "none"]

NoProg == [out |-> <<>>, written |-> 0]

\* killUser not called.  switched: the helper has done setuid(uid); eintr:
\* the broadcasts that were interrupted; victims: the live processes the
\* helper may signal once it runs as uid; killed: the processes the helper's
\* signal was delivered to.
NoKu == [pc |-> "off", uid |-> -1, switched |-> FALSE, eintr |-> 0, victims |-> 0,
         killed |-> 0, status |-> -1, result |-> "none", text |-> ""]

StatusOff == dec = NoDec
KillUserOff == ku = NoKu
ChildOff == sp = NoSp /\ child = NoChild /\ ro = NoRo
Run2Off ==
    /\ r2 = NoR2 /\ fds = NoFds /\ logger = NoLogger /\ stream = NoStream /\ prog = NoProg

\* The parts of the program a specification leaves out stay as constructed.
AuxOff == StatusOff /\ KillUserOff /\ ChildOff /\ Run2Off

InitHandles ==
    /\ handles = [h \in Slots |-> NoPid]
    /\ procs = [p \in Pids |-> NoProc]
    /\ nextPid = 1
    /\ call = NoCall
    /\ ret = NoRet
    /\ interrupted = FALSE

InitPid ==
    /\ InitHandles
    /\ pc = "off"
    /\ opts = NoOpts
    /\ childPc = "none"
    /\ pipe = <<>>
    /\ uncaught = 0
    /\ buf = <<>>
    /\ rp = NoRp
    /\ res = NoRes
    /\ outcome = NoOutcome
    /\ AuxOff


(* ------------------------ Pid: the pure pieces ------------------------ *)

\* checkInterrupt() throws Interrupted when an interrupt was requested.
checkInterrupt == interrupted

\* A move constructor that forgets other.pid = -1.
MoveCtorKeepsSource(other) == other

\* Pid::Pid(Pid && other): what is left in `other` ...
MovedFrom(other) == [other EXCEPT !.pid = -1]

\* A move constructor that takes nothing from its source.
MoveCtorTakesNothing(other) == EmptyPid

\* ... and what the new object holds.
MoveCtor(other) ==
    [live |-> TRUE, pid |-> other.pid, separatePG |-> other.separatePG,
     killSignal |-> other.killSignal]

\* A destructor that lets go of the process without kill().
DtorNeverKills(P) == FALSE

\* Pid::~Pid: if (pid != -1) kill();
DtorKills(P) == P.pid # -1

\* A kill that signals the process alone whatever separatePG says.
KillTargetIgnoresGroup(P) == P.pid

\* Pid::kill: ::kill(separatePG ? -pid : pid, killSignal)
KillTarget(P) == IF P.separatePG THEN -P.pid ELSE P.pid

\* A wait that returns the status without pid = -1.
WaitKeepsPid(P) == P

\* Pid::wait, res == pid: pid = -1; return status;
WaitDone(P) == [P EXCEPT !.pid = -1]

\* The effect of a delivered signal on the process: SIGKILL cannot be caught.
ProcsAfterKill(p, sig, ok) ==
    IF ok /\ sig = SIGKILL /\ procs[p].st = "running"
    THEN [procs EXCEPT ![p] = [st |-> "zombie", term |-> Signaled(SIGKILL, FALSE)]]
    ELSE procs

\* Every caller of kill() or wait() taken for one whose object ends with it.
IsScopedAlways(op) == TRUE

\* Scope exit of a Pid object that a destructor or operator= owned.
IsScoped(op) == op \in {"dtor", "assign"}

(* ----------------------- Pid: entering kill / wait -------------------- *)

\* Pid::kill up to its call of wait(): the signal is sent, a failed delivery
\* is logged only.  P is the object, h its slot, op the caller.
EnterKill(h, P, op, ok) ==
    /\ P.pid # -1
    /\ ok => procs[P.pid].st \in {"running", "zombie"}
    /\ procs' = ProcsAfterKill(P.pid, P.killSignal, ok)
    /\ call' = [op |-> op, h |-> h, retries |-> 0,
                target |-> KillTarget(P), sig |-> P.killSignal, sigOk |-> ok]
    /\ ret' = NoRet

\* Pid::wait up to its first waitpid.
EnterWait(h, P, op) ==
    /\ P.pid # -1
    /\ call' = [NoCall EXCEPT !.op = op, !.h = h]
    /\ ret' = NoRet
    /\ UNCHANGED procs

\* How member function op ended: "status" (it returned the status), "pid",
\* "void", or the exception it threw.
Done(op, kind, status) == [op |-> op, kind |-> kind, status |-> status]

(* --------------------- Pid::wait: the waitpid loop -------------------- *)

\* waitpid returned the pid: the child had terminated and is reaped now.
WaitpidReturns ==
    /\ call.op # "none"
    /\ LET h == call.h
           P == handles[h]
           p == P.pid
       IN /\ procs[p].st = "zombie"
          /\ procs' = [procs EXCEPT ![p].st = "reaped"]
          /\ handles' = [handles EXCEPT ![h] = IF IsScoped(call.op) THEN NoPid ELSE WaitDone(P)]
          /\ ret' = Done(call.op, "status", WaitStatus(procs[p].term))
          /\ call' = NoCall
    /\ UNCHANGED <<nextPid, interrupted>>
    /\ UNCHANGED <<runVars, auxVars>>

\* waitpid failed with EINTR: checkInterrupt(), then the loop goes round.
WaitpidEINTR ==
    /\ call.op # "none"
    /\ LET h == call.h
           P == handles[h]
           p == P.pid
       IN /\ procs[p].st = "running"
          /\ IF checkInterrupt
             THEN /\ ret' = Done(call.op, "Interrupted", -1)
                  /\ call' = NoCall
                  /\ handles' = [handles EXCEPT ![h] = IF IsScoped(call.op) THEN NoPid ELSE P]
             ELSE /\ call.retries < MaxRetries
                  /\ call' = [call EXCEPT !.retries = @ + 1]
                  /\ UNCHANGED <<ret, handles>>
    /\ UNCHANGED <<procs, nextPid, interrupted>>
    /\ UNCHANGED <<runVars, auxVars>>

\* waitpid failed with another errno: SysError("cannot get exit status").
WaitpidFails ==
    /\ call.op # "none"
    /\ LET h == call.h
           P == handles[h]
           p == P.pid
       IN /\ ret' = Done(call.op, "SysError", -1)
          /\ call' = NoCall
          /\ handles' = [handles EXCEPT ![h] = IF IsScoped(call.op) THEN NoPid ELSE P]
    /\ UNCHANGED <<procs, nextPid, interrupted>>
    /\ UNCHANGED <<runVars, auxVars>>

(* ------------------------- the environment ---------------------------- *)

\* A running child ends on its own account.
ChildTerminates(p, t) ==
    /\ procs[p].st = "running"
    /\ procs' = [procs EXCEPT ![p] = [st |-> "zombie", term |-> t]]
    /\ UNCHANGED <<handles, nextPid, call, ret, interrupted>>
    /\ UNCHANGED <<runVars, auxVars>>

\* The user interrupts the program.
RequestInterrupt ==
    /\ ~interrupted
    /\ interrupted' = TRUE
    /\ UNCHANGED <<handles, procs, nextPid, call, ret>>
    /\ UNCHANGED <<runVars, auxVars>>

(* ---------------------- Pid: a client's operations -------------------- *)

Idle == call.op = "none"

\* Pid::Pid()
PidDefault(h) ==
    /\ Idle /\ handles[h] = NoPid
    /\ handles' = [handles EXCEPT ![h] = EmptyPid]
    /\ ret' = NoRet
    /\ UNCHANGED <<procs, nextPid, call, interrupted>>
    /\ UNCHANGED <<runVars, auxVars>>

\* Pid h{startProcess(...)} in the parent: fork gave a new process id.
PidSpawn(h) ==
    /\ Idle /\ handles[h] = NoPid
    /\ nextPid <= MaxPid
    /\ handles' = [handles EXCEPT ![h] = PidOf(nextPid)]
    /\ procs' = [procs EXCEPT ![nextPid] = [st |-> "running", term |-> NoTerm]]
    /\ nextPid' = nextPid + 1
    /\ ret' = NoRet
    /\ UNCHANGED <<call, interrupted>>
    /\ UNCHANGED <<runVars, auxVars>>

\* Pid d(std::move(s))
PidMoveConstruct(d, s) ==
    /\ Idle /\ handles[d] = NoPid /\ handles[s].live
    /\ handles' = [handles EXCEPT ![d] = MoveCtor(handles[s]), ![s] = MovedFrom(handles[s])]
    /\ ret' = Done("move", "void", -1)
    /\ UNCHANGED <<procs, nextPid, call, interrupted>>
    /\ UNCHANGED <<runVars, auxVars>>

\* d = std::move(s): Pid tmp(std::move(other)); three swaps; ~tmp.
PidMoveAssign(d, s) ==
    /\ Idle /\ handles[d].live /\ handles[s].live
    /\ LET tmp == MoveCtor(handles[s])
           hs1 == [handles EXCEPT ![s] = MovedFrom(handles[s])]
           this == hs1[d]
           hs2 == [hs1 EXCEPT ![d] = tmp, ![0] = this]
       IN IF DtorKills(this)
          THEN /\ handles' = hs2
               /\ \E ok \in BOOLEAN : EnterKill(0, this, "assign", ok)
          ELSE /\ handles' = [hs2 EXCEPT ![0] = NoPid]
               /\ ret' = Done("assign", "void", -1)
               /\ UNCHANGED <<procs, call>>
    /\ UNCHANGED <<nextPid, interrupted>>
    /\ UNCHANGED <<runVars, auxVars>>

\* Pid::~Pid
PidDtor(h) ==
    /\ Idle /\ handles[h].live
    /\ IF DtorKills(handles[h])
       THEN /\ \E ok \in BOOLEAN : EnterKill(h, handles[h], "dtor", ok)
            /\ UNCHANGED handles
       ELSE /\ handles' = [handles EXCEPT ![h] = NoPid]
            /\ ret' = Done("dtor", "void", -1)
            /\ UNCHANGED <<procs, call>>
    /\ UNCHANGED <<nextPid, interrupted>>
    /\ UNCHANGED <<runVars, auxVars>>

\* Pid::kill
PidKill(h) ==
    /\ Idle /\ handles[h].live
    /\ \E ok \in BOOLEAN : EnterKill(h, handles[h], "kill", ok)
    /\ UNCHANGED <<handles, nextPid, interrupted>>
    /\ UNCHANGED <<runVars, auxVars>>

\* Pid::wait
PidWait(h) ==
    /\ Idle /\ handles[h].live
    /\ EnterWait(h, handles[h], "wait")
    /\ UNCHANGED <<handles, nextPid, interrupted>>
    /\ UNCHANGED <<runVars, auxVars>>

\* Pid::setSeparatePG
PidSetSeparatePG(h, b) ==
    /\ Idle /\ handles[h].live /\ handles[h].pid # -1 /\ handles[h].separatePG # b
    /\ handles' = [handles EXCEPT ![h].separatePG = b]
    /\ ret' = NoRet
    /\ UNCHANGED <<procs, nextPid, call, interrupted>>
    /\ UNCHANGED <<runVars, auxVars>>

\* Pid::setKillSignal
PidSetKillSignal(h, s) ==
    /\ Idle /\ handles[h].live /\ handles[h].pid # -1 /\ handles[h].killSignal # s
    /\ handles' = [handles EXCEPT ![h].killSignal = s]
    /\ ret' = NoRet
    /\ UNCHANGED <<procs, nextPid, call, interrupted>>
    /\ UNCHANGED <<runVars, auxVars>>

\* Pid::release
PidRelease(h) ==
    /\ Idle /\ handles[h].live
    /\ handles' = [handles EXCEPT ![h].pid = -1]
    /\ ret' = Done("release", "pid", handles[h].pid)
    /\ UNCHANGED <<procs, nextPid, call, interrupted>>
    /\ UNCHANGED <<runVars, auxVars>>

NextPid ==
    \/ \E h \in Clients : PidDefault(h)
    \/ \E h \in Clients : PidSpawn(h)
    \/ \E d, s \in Clients : PidMoveConstruct(d, s)
    \/ \E d, s \in Clients : PidMoveAssign(d, s)
    \/ \E h \in Clients : PidDtor(h)
    \/ \E h \in Clients : PidKill(h)
    \/ \E h \in Clients : PidWait(h)
    \/ \E h \in Clients, b \in BOOLEAN : PidSetSeparatePG(h, b)
    \/ \E h \in Clients, s \in KillSignals : PidSetKillSignal(h, s)
    \/ \E h \in Clients : PidRelease(h)
    \/ WaitpidReturns
    \/ WaitpidEINTR
    \/ WaitpidFails
    \/ \E p \in Pids, t \in PidTerms : ChildTerminates(p, t)
    \/ RequestInterrupt

SpecPid == InitPid /\ [][NextPid]_vars


(* ============ runProgram2, RunningProgram and runProgram ============== *)

\* Length of the longest output a child writes.
MaxOut == 2

Bytes == {"a", "b"}
Outputs == UNION {[1..n -> Bytes] : n \in 0..MaxOut}

\* The two entry points, and a program that exists or does not.
Variants == {"pair", "throwing"}
Programs == {"/bin/prog", "/nonexistent"}

\* Whether execv / execvp of the program fails.
ExecFails(program) == program = "/nonexistent"

\* The process id of runProgram2's child, and the slot of RunningProgram::pid.
childPid == nextPid - 1
rpSlot == 1

\* A wrapper that ends the child with the shell's "command not found" code.
WrapperExitOther == Exited(127)

\* startProcess, wrapper: after a caught exception the child does _exit(1)
\* (exit(1) with runExitHandlers).
WrapperExit == Exited(1)

\* A RunningProgram::wait that never throws for the status.
RpWaitNeverThrows(status) == FALSE

\* RunningProgram::wait: if (status) throw ExecError(...)
RpWaitThrows(status) == status # 0

\* RunningProgram::wait: std::uncaught_exceptions() == 0 selects pid.wait().
RpWaits(n) == n = 0

\* ~RunningProgram: if (pid) { assert(false); std::terminate(); }
RpDtorFatal(P) == P.pid # -1

\* ExecError(status, "program '%1%' %2%", program, statusToString(status))
ExecErrorText(program, status) == "program '" \o program \o "' " \o statusToString(status)

ExecError(program, status) ==
    [kind |-> "ExecError", status |-> status, text |-> ExecErrorText(program, status),
     buffer |-> <<>>]

Thrown(kind) == [NoOutcome EXCEPT !.kind = kind]

\* A throwing entry point that returns the buffer whatever the status.
ThrowingResultIgnoresStatus(program, r) == [NoOutcome EXCEPT !.kind = "returned", !.buffer = r.second]

\* runProgram(Path, ...): throws unless statusOk(res.first), else returns res.second.
ThrowingResult(program, r) ==
    IF ~statusOk(r.first) THEN ExecError(program, r.first)
    ELSE [NoOutcome EXCEPT !.kind = "returned", !.buffer = r.second]

\* runProgram(RunOptions &&): return {status, std::move(stdout)}
PairResult(r) == [NoOutcome EXCEPT !.kind = "returned", !.status = r.first, !.buffer = r.second]

InitRun ==
    /\ InitHandles
    /\ pc = "start"
    /\ opts \in [variant : Variants, program : Programs, out : Outputs]
    /\ childPc = "none"
    /\ pipe = <<>>
    /\ uncaught = 0
    /\ buf = <<>>
    /\ rp = NoRp
    /\ res = NoRes
    /\ outcome = NoOutcome
    /\ AuxOff

\* runProgram2 in the parent: checkInterrupt(), startProcess (fork), return
\* RunningProgram{program, std::move(pid), ...}.  A failure leaves the entry
\* point at once: neither is an ExecError.
runProgram2(forkOk) ==
    /\ pc = "start"
    /\ IF checkInterrupt
       THEN /\ outcome' = Thrown("Interrupted")
            /\ pc' = "done"
            /\ UNCHANGED <<handles, procs, nextPid, childPc>>
       ELSE IF ~forkOk
       THEN /\ outcome' = Thrown("SysError")
            /\ pc' = "done"
            /\ UNCHANGED <<handles, procs, nextPid, childPc>>
       ELSE /\ nextPid <= MaxPid
            /\ handles' = [handles EXCEPT ![rpSlot] = PidOf(nextPid)]
            /\ procs' = [procs EXCEPT ![nextPid] = [st |-> "running", term |-> NoTerm]]
            /\ nextPid' = nextPid + 1
            /\ childPc' = "setup"
            /\ pc' = "drain"
            /\ UNCHANGED outcome
    /\ UNCHANGED <<call, ret, interrupted, opts, pipe, uncaught, buf, rp, res>>
    /\ UNCHANGED auxVars

\* The child: the wrapper runs the child procedure up to exec.  A failed exec
\* throws SysError("executing ..."), which the wrapper catches, prints and
\* turns into its exit.
ChildExec ==
    /\ childPc = "setup"
    /\ procs[childPid].st = "running"
    /\ IF ExecFails(opts.program)
       THEN /\ procs' = [procs EXCEPT ![childPid] = [st |-> "zombie", term |-> WrapperExit]]
            /\ childPc' = "ended"
       ELSE /\ childPc' = "program"
            /\ UNCHANGED procs
    /\ UNCHANGED <<handles, nextPid, call, ret, interrupted, pc, opts, pipe, uncaught, buf, rp, res, outcome>>
    /\ UNCHANGED auxVars

\* The program writes the next byte of its output to the pipe.
ChildWrites ==
    /\ childPc = "program"
    /\ procs[childPid].st = "running"
    /\ Len(pipe) < Len(opts.out)
    /\ pipe' = Append(pipe, opts.out[Len(pipe) + 1])
    /\ UNCHANGED <<pidVars, pc, opts, childPc, uncaught, buf, rp, res, outcome>>
    /\ UNCHANGED auxVars

\* The program ends, having written its output.
ChildEnds(t) ==
    /\ childPc = "program"
    /\ procs[childPid].st = "running"
    /\ pipe = opts.out
    /\ procs' = [procs EXCEPT ![childPid] = [st |-> "zombie", term |-> t]]
    /\ childPc' = "ended"
    /\ UNCHANGED <<handles, nextPid, call, ret, interrupted, pc, opts, pipe, uncaught, buf, rp, res, outcome>>
    /\ UNCHANGED auxVars

\* proc.getStdout()->drain() reads to end of file: the child has ended.
DrainReturns ==
    /\ pc = "drain"
    /\ procs[childPid].st # "running"
    /\ buf' = pipe
    /\ pc' = "scopeExit"
    /\ UNCHANGED <<pidVars, opts, childPc, pipe, uncaught, rp, res, outcome>>
    /\ UNCHANGED auxVars

\* drain() throws (a failed read): the try block is left by an exception and
\* `stdout` is not assigned.
DrainThrows ==
    /\ pc = "drain"
    /\ uncaught' = uncaught + 1
    /\ pc' = "scopeExit"
    /\ UNCHANGED <<pidVars, opts, childPc, pipe, buf, rp, res, outcome>>
    /\ UNCHANGED auxVars

\* Finally _wait: proc.wait() is entered, RunningProgram::wait up to waitpid.
RunningProgramWait ==
    /\ pc = "scopeExit"
    /\ pc' = "inWait"
    /\ IF RpWaits(uncaught)
       THEN /\ EnterWait(rpSlot, handles[rpSlot], "wait")
            /\ rp' = [rp EXCEPT !.mode = "wait", !.calls = @ + 1]
       ELSE /\ \E ok \in BOOLEAN : EnterKill(rpSlot, handles[rpSlot], "kill", ok)
            /\ rp' = [rp EXCEPT !.mode = "kill", !.calls = @ + 1,
                                !.target = call'.target, !.sig = call'.sig]
    /\ UNCHANGED <<handles, nextPid, interrupted, opts, childPc, pipe, uncaught, buf, res, outcome>>
    /\ UNCHANGED auxVars

\* What RunningProgram::wait raises, given how pid.wait() / pid.kill() ended.
RpRaised(mode, r) ==
    IF r.kind # "status" THEN r.kind
    ELSE IF mode = "wait" /\ RpWaitThrows(r.status) THEN "ExecError"
    ELSE "none"

\* RunningProgram::wait ends, and with it the try block of runProgram: the
\* Finally is done, ~RunningProgram runs, catch (ExecError & e) sets status,
\* the pair is returned, and the throwing entry point decides on it.
RunningProgramWaitEnds ==
    /\ pc = "inWait"
    /\ call.op = "none"
    /\ pc' = "done"
    /\ LET raised == RpRaised(rp.mode, ret)
           escapes == raised \in {"SysError", "Interrupted"}
           \* an exception leaving the Finally while another one propagates
           \* ends the process before ~RunningProgram runs
           double == escapes /\ uncaught > 0
           dtor == IF double THEN "none"
                   ELSE IF RpDtorFatal(handles[rpSlot]) THEN "owning" ELSE "empty"
           status == IF raised = "ExecError" THEN ret.status ELSE 0
           pair == [set |-> TRUE, first |-> status, second |-> buf]
       IN /\ rp' = [rp EXCEPT !.done = TRUE, !.raised = raised, !.dtor = dtor,
                              !.status = ret.status,
                              !.text = IF raised = "ExecError"
                                       THEN ExecErrorText(opts.program, ret.status) ELSE ""]
          /\ IF double \/ dtor = "owning"
             THEN /\ outcome' = Thrown("terminate")
                  /\ UNCHANGED res
             ELSE IF uncaught > 0
             THEN /\ outcome' = Thrown("ReadError")
                  /\ UNCHANGED res
             ELSE /\ res' = pair
                  /\ outcome' = IF opts.variant = "throwing"
                                THEN ThrowingResult(opts.program, pair)
                                ELSE PairResult(pair)
    /\ UNCHANGED <<pidVars, opts, childPc, pipe, uncaught, buf>>
    /\ UNCHANGED auxVars

\* The waitpid loop and the interrupt request, as in the handle layer.
NextRun ==
    \/ \E forkOk \in BOOLEAN : runProgram2(forkOk)
    \/ ChildExec
    \/ ChildWrites
    \/ \E t \in Terms : ChildEnds(t)
    \/ DrainReturns
    \/ DrainThrows
    \/ RunningProgramWait
    \/ RunningProgramWaitEnds
    \/ WaitpidReturns
    \/ WaitpidEINTR
    \/ WaitpidFails
    \/ RequestInterrupt

SpecRun == InitRun /\ [][NextRun]_vars


(* ===================== the claims about runProgram ==================== *)

\* What the specification calls ok: the process exited normally with code 0.
CleanExit(t) == t.how = "exit" /\ t.n = 0

\* The decoded text the specification gives for a termination that is not ok.
TermText(t) ==
    IF t.how = "exit" THEN "failed with exit code " \o ToString(t.n)
    ELSE "failed due to signal " \o ToString(t.n)

\* The entry point is over, the child was spawned, pid.wait() was the way the
\* child was waited for and it returned the status.
NormalEnd == pc = "done" /\ rp.done /\ rp.mode = "wait" /\ ret.kind = "status"

\* What the caller of either entry point observes for a child whose wait
\* status is that of exit code 1.
ObservedExit1 ==
    IF opts.variant = "throwing"
    THEN /\ outcome.kind = "ExecError"
         /\ outcome.status = WaitStatus(Exited(1))
         /\ outcome.text = "program '" \o opts.program \o "' failed with exit code 1"
    ELSE /\ outcome.kind = "returned"
         /\ outcome.status = WaitStatus(Exited(1))

C2_WaitedOnceNeverFatal ==
    (pc = "done" /\ childPc # "none") =>
        (rp.calls = 1 /\ rp.dtor = "empty" /\ outcome.kind # "terminate")

\* C3: called with no exception propagating, RunningProgram::wait does a
\* plain pid.wait() (no signal is sent) and, for every status that returns,
\* raises ExecError (with that status and its decoded text) iff statusOk of
\* the status is false, and returns normally iff it is true.
C3_WaitRaisesIffNotOk ==
    /\ (rp.mode # "none" /\ uncaught = 0) => (rp.mode = "wait" /\ rp.sig = 0)
    /\ (rp.done /\ rp.mode = "wait" /\ ret.kind = "status") =>
           LET st == WaitStatus(procs[childPid].term)
           IN /\ ret.status = st
              /\ rp.raised \in {"none", "ExecError"}
              /\ (rp.raised = "ExecError") <=> ~statusOk(st)
              /\ rp.raised = "ExecError" =>
                     /\ rp.status = st
                     /\ rp.text = "program '" \o opts.program \o "' " \o TermText(procs[childPid].term)

C3_Witness ==
    /\ rp.done /\ rp.mode = "wait" /\ rp.raised = "ExecError"
    /\ procs[childPid].term = Signaled(11, TRUE)

\* C4, as stated: called while an exception propagates, RunningProgram::wait
\* sends the kill signal instead of waiting, reaps the child, leaves the
\* handle empty and raises nothing: the first exception goes on unchanged.
C4_KillWhileUnwindingRaisesNothing ==
    /\ (rp.mode # "none" /\ uncaught > 0) =>
           (rp.mode = "kill" /\ rp.sig = SIGKILL /\ rp.target = childPid)
    /\ (rp.done /\ rp.mode = "kill") =>
           /\ rp.raised = "none"
           /\ handles[rpSlot].pid = -1
           /\ procs[childPid].st = "reaped"
           /\ outcome.kind = "ReadError"

\* C5: the pair-returning runProgram does not raise for the child's status:
\* it returns the raw wait status with all the output drained, and status 0
\* only for a child that exited with code 0.
C5_PairReturnsStatus ==
    /\ opts.variant = "pair" => outcome.kind # "ExecError"
    /\ (NormalEnd /\ opts.variant = "pair") =>
           LET t == procs[childPid].term
           IN /\ outcome.kind = "returned"
              /\ outcome.status = (IF CleanExit(t) THEN 0 ELSE WaitStatus(t))
              /\ outcome.status = 0 => CleanExit(t)
              /\ outcome.buffer = pipe
              /\ ~ExecFails(opts.program) => outcome.buffer = opts.out

C5_Witness ==
    /\ NormalEnd /\ opts.variant = "pair"
    /\ outcome.kind = "returned" /\ outcome.status # 0 /\ Len(outcome.buffer) > 1

\* C6: the throwing runProgram raises ExecError, naming the program and the
\* decoded status, iff the status of the pair it got is not ok; otherwise it
\* returns the buffer of that pair, which is the full captured output.
C6_ThrowingIffNotOk ==
    (pc = "done" /\ opts.variant = "throwing" /\ res.set) =>
        LET t == procs[childPid].term
        IN /\ res.first = (IF CleanExit(t) THEN 0 ELSE WaitStatus(t))
           /\ (outcome.kind = "ExecError") <=> ~CleanExit(t)
           /\ ~CleanExit(t) =>
                  /\ outcome.status = res.first
                  /\ outcome.text = "program '" \o opts.program \o "' " \o TermText(t)
           /\ CleanExit(t) =>
                  /\ outcome.kind = "returned"
                  /\ outcome.buffer = res.second
                  /\ outcome.buffer = opts.out

C6_Witness ==
    /\ pc = "done" /\ opts.variant = "throwing" /\ res.set
    /\ outcome.kind = "ExecError" /\ outcome.text = "program '/bin/prog' failed due to signal 9"

C6_WitnessReturned ==
    /\ pc = "done" /\ opts.variant = "throwing" /\ res.set
    /\ outcome.kind = "returned" /\ Len(outcome.buffer) > 1


(* ==================== the claims about the handle ===================== *)

\* The signal ::kill is to be called with for handle P.
ConfiguredTarget(P) == IF P.separatePG THEN 0 - P.pid ELSE P.pid

\* No two Pid objects own the same process id, and an owned process is one
\* that nobody has reaped.
ExclusiveOwnership ==
    /\ \A h1, h2 \in Slots :
           (h1 # h2 /\ handles[h1].pid # -1) => handles[h1].pid # handles[h2].pid
    /\ \A h \in Slots :
           handles[h].pid # -1 =>
               (handles[h].live /\ procs[handles[h].pid].st \in {"running", "zombie"})

\* A move leaves the source empty and gives the destination the source's
\* process id, separatePG and killSignal; a move onto itself changes nothing.
MoveTransfers ==
    /\ \A d, s \in Clients :
           PidMoveConstruct(d, s) =>
               /\ handles'[s].pid = -1
               /\ handles'[d].live
               /\ handles'[d].pid = handles[s].pid
               /\ handles'[d].separatePG = handles[s].separatePG
               /\ handles'[d].killSignal = handles[s].killSignal
    /\ \A d, s \in Clients :
           PidMoveAssign(d, s) =>
               /\ d # s => handles'[s].pid = -1
               /\ handles'[d].live
               /\ handles'[d].pid = handles[s].pid
               /\ handles'[d].separatePG = handles[s].separatePG
               /\ handles'[d].killSignal = handles[s].killSignal

\* C7: after any sequence of spawn, move construction, move assignment, wait,
\* kill and release, every process id is owned by at most one handle, a move
\* empties its source and hands the process id and both settings to its
\* destination, and so no process is waited for through two handles.
C7_ExclusiveOwnership == [](ExclusiveOwnership) /\ [][MoveTransfers]_vars

C7_Witness ==
    /\ ret.op = "move"
    /\ handles[1].live /\ handles[1].pid = -1
    /\ handles[2].pid = 1 /\ handles[2].separatePG /\ handles[2].killSignal = 15

\* One step of the waitpid loop of Pid::wait, called as op.
WaitStep(op) == call.op = op /\ call' # call

\* waitpid returned the owned process, which had ended: its status is
\* returned and the handle is empty.
WaitStepReturns ==
    LET p == handles[call.h].pid
    IN /\ procs[p].st = "zombie"
       /\ procs'[p].st = "reaped"
       /\ ret' = [op |-> call.op, kind |-> "status", status |-> WaitStatus(procs[p].term)]
       /\ call'.op = "none"

\* EINTR with no interrupt requested: the loop goes round, nothing changes.
WaitStepRetries ==
    /\ ~interrupted
    /\ call' = [call EXCEPT !.retries = @ + 1]
    /\ UNCHANGED <<handles, procs, ret>>

\* An exception leaves the loop: no status, and the process is not reaped.
WaitStepRaises ==
    /\ ret'.op = call.op
    /\ ret'.kind \in {"SysError", "Interrupted"}
    /\ ret'.kind = "Interrupted" => interrupted
    /\ ret'.status = -1
    /\ call'.op = "none"
    /\ UNCHANGED procs

\* C8: wait() on an owning handle returns a status only when waitpid reported
\* the end of the owned process, and then the handle is empty; EINTR with no
\* interrupt pending is retried with the handle unchanged; any other error
\* raises "cannot get exit status" and returns no status.
C8_WaitOutcomes ==
    [][WaitStep("wait") =>
          \/ WaitStepReturns /\ handles' = [handles EXCEPT ![call.h].pid = -1]
          \/ WaitStepRetries
          \/ WaitStepRaises /\ UNCHANGED handles]_vars

C8_Witness ==
    /\ ret.op = "wait" /\ ret.kind = "status"
    /\ \E h \in Clients : handles[h].live /\ handles[h].pid = -1 /\ handles[h].separatePG

\* C9: kill() on an owning handle sends the configured signal, to the group
\* when separatePG is set, and then always does wait(): a failed delivery is
\* not an error, and when kill() returns the handle is empty and the value
\* returned is the status that wait got.
C9_KillThenWait ==
    /\ [][\A h \in Clients :
             PidKill(h) =>
                 /\ call'.op = "kill" /\ call'.h = h
                 /\ call'.sig = handles[h].killSignal
                 /\ call'.target = ConfiguredTarget(handles[h])
                 /\ ret' = NoRet
                 /\ UNCHANGED handles]_vars
    /\ [][WaitStep("kill") =>
             \/ WaitStepReturns /\ handles' = [handles EXCEPT ![call.h].pid = -1]
             \/ WaitStepRetries
             \/ WaitStepRaises /\ UNCHANGED handles]_vars

\* kill() on a handle with separatePG has returned the status of a child that
\* had ended on its own.
C9_Witness ==
    /\ ret.op = "kill" /\ ret.kind = "status" /\ ret.status = WaitStatus(Exited(1))
    /\ \E h \in Clients : handles[h].live /\ handles[h].pid = -1 /\ handles[h].separatePG

\* A handle is destroyed while it owns a process: kill() is entered.
DtorOfOwning ==
    \A h \in Clients :
        (PidDtor(h) /\ handles[h].pid # -1) =>
            /\ call'.op = "dtor" /\ call'.h = h
            /\ call'.sig = handles[h].killSignal
            /\ call'.target = ConfiguredTarget(handles[h])

\* An empty handle is destroyed: no signal, no wait.
DtorOfEmpty ==
    \A h \in Clients :
        (PidDtor(h) /\ handles[h].pid = -1) =>
            /\ handles' = [handles EXCEPT ![h] = NoPid]
            /\ UNCHANGED <<procs, call>>

\* C10, as stated: a handle destroyed while owning does kill(), so after its
\* destruction the process has been signalled and reaped; destroying an empty
\* handle sends no signal and waits for nothing.
C10_DestroyedMeansReaped ==
    /\ [][DtorOfOwning /\ DtorOfEmpty]_vars
    /\ [][(WaitStep("dtor") /\ call'.op = "none") =>
             procs'[handles[call.h].pid].st = "reaped"]_vars

\* C10, amended: a handle destroyed while owning does kill(): the signal is
\* sent and wait() follows; when that wait returns the process has been
\* reaped, and when it raises (an interrupt after EINTR, a waitpid error) the
\* exception leaves the destructor with the process signalled but not reaped
\* and owned by no handle.  Destroying an empty handle sends no signal and
\* waits for nothing.
C10_DestroyedMeansKilled ==
    /\ [][DtorOfOwning /\ DtorOfEmpty]_vars
    /\ [][WaitStep("dtor") =>
             \/ WaitStepReturns /\ handles' = [handles EXCEPT ![call.h] = NoPid]
             \/ WaitStepRetries
             \/ WaitStepRaises /\ handles' = [handles EXCEPT ![call.h] = NoPid]]_vars

C10_Witness ==
    /\ ret.op = "dtor" /\ ret.kind = "status"
    /\ procs[1].st = "reaped" /\ procs[1].term = Signaled(SIGKILL, FALSE)

C10_WitnessRaised ==
    /\ ret.op = "dtor" /\ ret.kind = "Interrupted"
    /\ procs[1].st = "running"
    /\ \A h \in Slots : handles[h].pid # 1


(* ================= statusToString and statusOk alone ================== *)

\* The largest signal number a status is made for.
MaxSignal == 64

\* Every shape of wait status: exit codes 0..255, death by a signal with or
\* without core dump, stopped by a signal, continued.
AllTerms ==
    {Exited(n) : n \in 0..255}
        \cup {Signaled(n, c) : n \in 1..MaxSignal, c \in BOOLEAN}
        \cup {Stopped(n) : n \in 1..MaxSignal}
        \cup {Continued}

\* No runProgram in this behaviour.
RunOff ==
    /\ pc = "off"
    /\ opts = NoOpts
    /\ childPc = "none"
    /\ pipe = <<>>
    /\ uncaught = 0
    /\ buf = <<>>
    /\ rp = NoRp
    /\ res = NoRes
    /\ outcome = NoOutcome

InitStatus ==
    /\ InitHandles
    /\ RunOff
    /\ KillUserOff
    /\ ChildOff
    /\ Run2Off
    /\ \E t \in AllTerms : dec = [NoDec EXCEPT !.term = t, !.status = WaitStatus(t)]

\* A caller decodes the status: statusToString(status) and statusOk(status).
Decode ==
    /\ ~dec.done
    /\ dec' = [dec EXCEPT !.text = statusToString(dec.status),
                          !.ok = statusOk(dec.status),
                          !.done = TRUE]
    /\ UNCHANGED <<pidVars, runVars, ku, sp, child, ro, run2Vars>>

NextStatus == Decode

SpecStatus == InitStatus /\ [][NextStatus]_vars

\* C19: for every wait status, statusOk is true iff the process exited
\* normally with code 0, and statusToString is "succeeded" iff statusOk; for
\* exit codes 1..255 the text is "failed with exit code N", for death by
\* signal S it is "failed due to signal S", and for a stopped or continued
\* process it is "died abnormally".
C19_DecodeAndOk ==
    dec.done =>
        LET t == dec.term
        IN /\ dec.ok <=> CleanExit(t)
           /\ (dec.text = "succeeded") <=> dec.ok
           /\ (t.how = "exit" /\ t.n \in 1..255) =>
                  dec.text = "failed with exit code " \o ToString(t.n)
           /\ t.how = "signal" => dec.text = "failed due to signal " \o ToString(t.n)
           /\ t.how \in {"stopped", "continued"} => dec.text = "died abnormally"

\* The status of a process stopped by SIGSTOP has been decoded.
C19_Witness ==
    /\ dec.done /\ dec.term = Stopped(19) /\ dec.status = 4991
    /\ ~dec.ok /\ dec.text = "died abnormally"

(* ============== startProcess, its wrapper and the child =============== *)

\* The callbacks startProcess is given: the child procedure of runProgram2,
\* and callbacks that throw a std::exception, throw something else, return.
FunKinds == {"runProgram2", "throwsStd", "throwsOther", "returns"}

\* The slot of the Pid that startProcess returns into.
spSlot == 1

\* fork() / clone(): the new process id in the parent, -1 for a failure.
ForkReturn(forkOk) == IF forkOk THEN nextPid ELSE -1

\* A startProcess without the test of line 227.
ForkFailedNever(pid) == FALSE

\* startProcess: if (pid == -1) throw SysError("unable to fork")
ForkFailed(pid) == pid = -1

\* startProcess before fork / clone: clone flags need Linux ("Error") and a
\* stack from mmap ("SysError"); "none" when nothing is thrown.
BeforeFork(o, mmapOk) ==
    IF o.cloneFlags /\ ~o.linux THEN "Error"
    ELSE IF o.cloneFlags /\ ~mmapOk THEN "SysError"
    ELSE "none"

\* startProcess in the parent, returning into Pid slot h.
StartProcess(h, mmapOk, forkOk) ==
    LET early == BeforeFork(sp, mmapOk)
        pid == ForkReturn(forkOk)
    IN IF early # "none"
       THEN /\ sp' = [sp EXCEPT !.result = early, !.forked = "notcalled"]
            /\ UNCHANGED <<handles, procs, nextPid, child>>
       ELSE /\ pid # -1 => nextPid <= MaxPid
            /\ procs' = IF pid # -1
                        THEN [procs EXCEPT ![pid] = [st |-> "running", term |-> NoTerm]]
                        ELSE procs
            /\ nextPid' = IF pid # -1 THEN nextPid + 1 ELSE nextPid
            /\ child' = IF pid # -1
                        THEN [NoChild EXCEPT !.pc = "wrapper",
                                             !.via = IF sp.cloneFlags THEN "clone" ELSE "fork"]
                        ELSE child
            /\ IF ForkFailed(pid)
               THEN /\ sp' = [sp EXCEPT !.result = "SysError", !.forked = "failed"]
                    /\ UNCHANGED handles
               ELSE /\ sp' = [sp EXCEPT !.result = "returned", !.pid = pid,
                                        !.forked = IF pid = -1 THEN "failed" ELSE "ok"]
                    /\ handles' = [handles EXCEPT ![h] = PidOf(pid)]

\* A caller calls startProcess(fun, options).
startProcess(mmapOk, forkOk) ==
    /\ sp.fun # "none" /\ sp.result = "none"
    /\ ~sp.cloneFlags => mmapOk
    /\ StartProcess(spSlot, mmapOk, forkOk)
    /\ UNCHANGED <<call, ret, interrupted, runVars, dec, ku, ro, run2Vars>>

\* The child image is still there to take a step.
ChildAlive == child.pc # "none" /\ procs[sp.pid].st = "running"

\* The wrapper up to the call of fun(): makeSimpleLogger, and with
\* dieWithParent on Linux, prctl(PR_SET_PDEATHSIG), whose failure is thrown.
ChildWrapperEnter(prctlOk) ==
    /\ ChildAlive /\ child.pc = "wrapper"
    /\ ~(sp.linux /\ sp.dieWithParent) => prctlOk
    /\ child' = IF prctlOk THEN [child EXCEPT !.pc = "fun"]
                ELSE [child EXCEPT !.pc = "thrown", !.thrown = "std"]
    /\ UNCHANGED <<pidVars, runVars, dec, ku, sp, ro, run2Vars>>

\* A callback that throws or returns at once.
ChildFun ==
    /\ ChildAlive /\ child.pc = "fun"
    /\ sp.fun \in {"throwsStd", "throwsOther", "returns"}
    /\ child' = IF sp.fun = "throwsStd"
                THEN [child EXCEPT !.pc = "thrown", !.thrown = "std", !.outcome = "threwStd"]
                ELSE IF sp.fun = "throwsOther"
                THEN [child EXCEPT !.pc = "thrown", !.thrown = "other", !.outcome = "threwOther"]
                ELSE [child EXCEPT !.pc = "afterTry", !.outcome = "returned"]
    /\ UNCHANGED <<pidVars, runVars, dec, ku, sp, ro, run2Vars>>

\* The child procedure of runProgram2, in the order of a setuid-first variant.
ChildStepsUserFirst ==
    <<"replaceEnv", "dupStdout", "dupStderr", "chdir", "setuid", "setgid", "setgroups",
      "restoreProcessContext", "exec">>

\* The child procedure of runProgram2: its statements in program order.
ChildSteps ==
    <<"replaceEnv", "dupStdout", "dupStderr", "chdir", "setgid", "setgroups", "setuid",
      "restoreProcessContext", "exec">>

\* A child procedure that never redirects its standard output.
StepAppliesNoCapture(step, o) == step \notin {"replaceEnv", "dupStdout", "dupStderr", "chdir",
                                              "setgid", "setgroups", "setuid"}

\* The condition under which each statement is executed.
StepApplies(step, o) ==
    CASE step = "replaceEnv" -> o.environment
      [] step = "dupStdout" -> o.captureStdout
      [] step = "dupStderr" -> o.mergeStderrToStdout
      [] step = "chdir" -> o.chdir
      [] step = "setgid" -> o.gid
      [] step = "setgroups" -> o.gid
      [] step = "setuid" -> o.uid
      [] OTHER -> TRUE

\* The statements that are followed by a throw when the call returns -1.
StepMayFail(step) ==
    step \in {"dupStdout", "dupStderr", "chdir", "setgid", "setgroups", "setuid"}

\* The next statement executed after position i.
NextPos(i, o) ==
    CHOOSE j \in (i + 1)..Len(ChildSteps) :
        /\ StepApplies(ChildSteps[j], o)
        /\ \A k \in (i + 1)..(j - 1) : ~StepApplies(ChildSteps[k], o)

\* One statement of the child procedure of runProgram2.  A failed call throws
\* SysError; exec returns only when it failed, and then SysError is thrown.
ChildStep(ok) ==
    /\ ChildAlive /\ child.pc = "fun" /\ sp.fun = "runProgram2"
    /\ LET i == NextPos(child.pos, ro)
           step == ChildSteps[i]
           fails == IF step = "exec" THEN ExecFails(ro.program) ELSE ~ok
           done == [child EXCEPT !.pos = i, !.trace = Append(@, step)]
       IN /\ ~StepMayFail(step) => ok
          /\ child' =
                 IF fails
                 THEN [done EXCEPT !.pc = "thrown", !.thrown = "std", !.failed = TRUE,
                                   !.outcome = "threwStd"]
                 ELSE IF step = "exec" THEN [done EXCEPT !.pc = "program", !.end = "exec"]
                 ELSE IF step = "dupStdout" THEN [done EXCEPT !.stdout = "pipe"]
                 ELSE IF step = "dupStderr" THEN [done EXCEPT !.stderr = done.stdout]
                 ELSE done
    /\ UNCHANGED <<pidVars, runVars, dec, ku, sp, ro, run2Vars>>

\* The wrapper's handlers: catch (std::exception & e) and catch (...).
WrapperCatches(thrown) == thrown \in {"std", "other"}

\* An exception leaves fun(): it is caught by the wrapper, and for a
\* std::exception the prefix and e.what() are written to std::cerr, a failure
\* of that write being caught and dropped.  What is not caught leaves the
\* wrapper and goes up into the caller of startProcess in the child image.
ChildCatch(writeOk) ==
    /\ ChildAlive /\ child.pc = "thrown"
    /\ child.thrown # "std" => writeOk
    /\ child' =
           IF ~WrapperCatches(child.thrown)
           THEN [child EXCEPT !.pc = "ended", !.end = "escaped"]
           ELSE IF child.thrown = "std"
           THEN [child EXCEPT !.pc = "afterTry",
                              !.diag = IF writeOk THEN "written" ELSE "failed"]
           ELSE [child EXCEPT !.pc = "afterTry"]
    /\ UNCHANGED <<pidVars, runVars, dec, ku, sp, ro, run2Vars>>

\* A wrapper that returns after the try block.
WrapperEndReturns(runExitHandlers) == "return"

\* The wrapper after the try block: exit(1) with runExitHandlers, else _exit(1).
WrapperEnd(runExitHandlers) == IF runExitHandlers THEN "exit" ELSE "_exit"

\* What follows the call of the wrapper: abort() in doFork, `return 1` in
\* childEntry.
AfterWrapper(via) == IF via = "fork" THEN "abort" ELSE "return1"

\* The end of the wrapper, and with it of the child.
ChildWrapperEnds ==
    /\ ChildAlive /\ child.pc = "afterTry"
    /\ LET e == WrapperEnd(sp.runExitHandlers)
           end == IF e = "return" THEN AfterWrapper(child.via) ELSE e
           term == IF end = "abort" THEN Signaled(6, TRUE) ELSE WrapperExit
       IN /\ child' = [child EXCEPT !.pc = "ended", !.end = end]
          /\ procs' = [procs EXCEPT ![sp.pid] = [st |-> "zombie", term |-> term]]
    /\ UNCHANGED <<handles, nextPid, call, ret, interrupted, runVars, dec, ku, sp, ro, run2Vars>>

\* The options of one call of startProcess by a caller.
SpOptions ==
    {[NoSp EXCEPT !.fun = f, !.cloneFlags = c, !.runExitHandlers = r,
                  !.dieWithParent = d, !.linux = l] :
         f \in FunKinds, c \in BOOLEAN, r \in BOOLEAN, d \in BOOLEAN, l \in BOOLEAN}

\* The RunOptions of the child procedure.
RoOptions ==
    {[NoRo EXCEPT !.program = p, !.searchPath = sPath, !.environment = e, !.chdir = cd,
                  !.gid = g, !.uid = u, !.captureStdout = c, !.mergeStderrToStdout = m] :
         p \in Programs, sPath \in BOOLEAN, e \in BOOLEAN, cd \in BOOLEAN,
         g \in BOOLEAN, u \in BOOLEAN, c \in BOOLEAN, m \in BOOLEAN}

InitChild ==
    /\ InitHandles
    /\ RunOff
    /\ KillUserOff
    /\ StatusOff
    /\ Run2Off
    /\ sp \in SpOptions
    /\ child = NoChild
    /\ IF sp.fun = "runProgram2" THEN ro \in RoOptions ELSE ro = NoRo

NextChild ==
    \/ \E mmapOk, forkOk \in BOOLEAN : startProcess(mmapOk, forkOk)
    \/ \E prctlOk \in BOOLEAN : ChildWrapperEnter(prctlOk)
    \/ ChildFun
    \/ \E ok \in BOOLEAN : ChildStep(ok)
    \/ \E writeOk \in BOOLEAN : ChildCatch(writeOk)
    \/ ChildWrapperEnds

SpecChild == InitChild /\ [][NextChild]_vars

(* ============ the claims about startProcess and the child ============= *)

\* The child has ended by the wrapper's exit(1) when runExitHandlers is set
\* and by its _exit(1) otherwise: a nonzero exit code.
EndedByWrapper ==
    /\ child.end = (IF sp.runExitHandlers THEN "exit" ELSE "_exit")
    /\ procs[sp.pid].st # "running"
    /\ procs[sp.pid].term.how = "exit"
    /\ procs[sp.pid].term.n # 0

\* C17: in the child, whether the callback throws a std::exception, throws
\* anything else or returns, control never comes back into the caller of
\* startProcess: the step after the try block ends the child with a nonzero
\* exit code, by exit() when runExitHandlers is set and by _exit() otherwise,
\* also when the write of the diagnostic failed.
C17_ChildNeverReturns ==
    /\ [](child.end \notin {"escaped", "abort", "return1"})
    /\ []((child.pc = "ended") => EndedByWrapper)
    /\ [][(child.pc \in {"thrown", "afterTry"} /\ child' # child) =>
              /\ child'.pc \in {"afterTry", "ended"}
              /\ child'.pc = "ended" => EndedByWrapper']_vars
    /\ [][(child.pc = "fun" /\ child'.outcome \in {"threwStd", "threwOther", "returned"}) =>
              child'.pc \in {"thrown", "afterTry"}]_vars

\* A callback threw a std::exception, the diagnostic could not be written,
\* and the child ended by _exit(1).
C17_Witness ==
    /\ child.pc = "ended" /\ child.outcome = "threwStd" /\ child.diag = "failed"
    /\ child.end = "_exit" /\ procs[sp.pid].term = Exited(1)

\* The callback returned, and the child ended by exit(1).
C17_WitnessReturned ==
    /\ child.pc = "ended" /\ child.outcome = "returned" /\ child.end = "exit"

\* C18: when fork or clone fails, startProcess throws in the parent, no Pid
\* is returned and no child runs the callback; when it succeeds, the parent
\* gets one Pid that owns the new process id.
C18_SpawnFailureGivesNoHandle ==
    /\ sp.forked = "failed" => sp.result = "SysError"
    /\ sp.result \in {"SysError", "Error"} =>
           /\ \A h \in Slots : handles[h] = NoPid
           /\ child = NoChild
           /\ \A p \in Pids : procs[p].st = "none"
    /\ sp.forked = "ok" =>
           /\ sp.result = "returned"
           /\ sp.pid \in Pids /\ procs[sp.pid].st # "none"
           /\ handles[spSlot].live /\ handles[spSlot].pid = sp.pid
           /\ Cardinality({h \in Slots : handles[h].pid = sp.pid}) = 1
    /\ \A h \in Slots : handles[h].live => handles[h].pid \in Pids

\* clone() failed: SysError, no handle.
C18_Witness ==
    /\ sp.cloneFlags /\ sp.linux /\ sp.forked = "failed" /\ sp.result = "SysError"
    /\ handles[spSlot] = NoPid

\* fork() succeeded: the handle owns the child.
C18_WitnessSpawned ==
    /\ ~sp.cloneFlags /\ sp.forked = "ok" /\ handles[spSlot].pid = 1 /\ child.pc = "fun"

\* The order in which the specification lists the steps of the child.
ClaimedOrder ==
    <<"replaceEnv", "dupStdout", "dupStderr", "chdir", "setgid", "setgroups", "setuid",
      "restoreProcessContext", "exec">>

Rank(step) == CHOOSE i \in 1..Len(ClaimedOrder) : ClaimedOrder[i] = step

Performed(step) == \E i \in 1..Len(child.trace) : child.trace[i] = step

\* C20: the child procedure of runProgram2 performs its steps in the order
\* environment, stdout, stderr, chdir, setgid, setgroups, setuid, context
\* reset, exec; setgid and setgroups come before setuid; and after a step
\* that failed no further step, and no exec, is performed.
C20_ChildStepsInOrder ==
    /\ [](\A i, j \in 1..Len(child.trace) :
              i < j => Rank(child.trace[i]) < Rank(child.trace[j]))
    /\ []((ro.gid /\ Performed("setuid")) => (Performed("setgid") /\ Performed("setgroups")))
    /\ []((child.end = "exec") =>
              child.trace = SelectSeq(ClaimedOrder, LAMBDA st : StepApplies(st, ro)))
    /\ []((child.failed /\ child.trace[Len(child.trace)] # "exec") => ~Performed("exec"))
    /\ []((child.failed) => child.end # "exec")
    /\ [][child.failed => child'.trace = child.trace]_vars

\* All nine steps were performed and the program was executed.
C20_Witness ==
    /\ child.end = "exec" /\ Len(child.trace) = 9
    /\ child.trace[5] = "setgid" /\ child.trace[7] = "setuid"

\* setgid failed: the child ended without setuid and without exec.
C20_WitnessFailed ==
    /\ child.pc = "ended" /\ child.failed /\ ro.uid
    /\ child.trace[Len(child.trace)] = "setgid"

(* ================= runProgram2, statement by statement ================ *)

\* ProcessOptions processOptions: the defaults, no clone flags.
DefaultProcessOptions == [NoSp EXCEPT !.fun = "runProgram2", !.dieWithParent = TRUE]

\* The slot of RunningProgram::pid in the caller's RunningProgram.
rp2Slot == 2

\* Pipe::create: both ends are the parent's.
PipeCreate(f) == [f EXCEPT !.readSide = "open", !.writeSide = "open"]

\* out.writeSide.close()
CloseWriteSide(f) == [f EXCEPT !.writeSide = IF @ = "none" THEN "none" ELSE "closed"]

\* A RunningProgram that is given the whole pipe.
MovedWholePipe(f, capture) ==
    IF capture THEN [f EXCEPT !.readSide = "moved", !.writeSide = "moved"] ELSE f

\* RunningProgram{..., options.captureStdout ? std::move(out.readSide) : AutoCloseFD{}}
MoveReadSide(f, capture) == IF capture THEN [f EXCEPT !.readSide = "moved"] ELSE f

\* ~Pipe at the end of runProgram2: the ends `out` still holds are closed.
PipeDtor(f) ==
    [f EXCEPT !.readSide = IF @ = "open" THEN "closed" ELSE @,
              !.writeSide = IF @ = "open" THEN "closed" ELSE @]

\* logger->pause() and logger->resume()
PauseLogger(l) == [l EXCEPT !.paused = TRUE, !.pauses = @ + 1]
ResumeLogger(l) == [l EXCEPT !.paused = FALSE, !.resumes = @ + 1]

\* A resumeLoggerDefer that is dropped without running.
LeaveScopeNoResume(l, deferred) == l

\* The end of the scope of resumeLoggerDefer: the Finally, if set, resumes.
LeaveScope(l, deferred) == IF deferred THEN ResumeLogger(l) ELSE l

\* runProgram2 up to the fork: checkInterrupt(), out.create(), logger->pause().
runProgram2Begin(pipeOk) ==
    /\ r2.pc = "start"
    /\ ~ro.captureStdout => pipeOk
    /\ IF checkInterrupt
       THEN /\ r2' = [r2 EXCEPT !.pc = "done", !.result = "Interrupted"]
            /\ UNCHANGED <<fds, logger>>
       ELSE IF ~pipeOk
       THEN /\ r2' = [r2 EXCEPT !.pc = "done", !.result = "SysError"]
            /\ UNCHANGED <<fds, logger>>
       ELSE /\ fds' = IF ro.captureStdout THEN PipeCreate(fds) ELSE fds
            /\ logger' = IF ro.isInteractive THEN PauseLogger(logger) ELSE logger
            /\ r2' = [r2 EXCEPT !.pc = "fork", !.deferred = ro.isInteractive]
    /\ UNCHANGED <<pidVars, runVars, dec, ku, sp, child, ro, stream, prog>>

\* Pid pid{startProcess(...)}: the fork.  When startProcess throws, the scope
\* is left: resumeLoggerDefer and `out` are destroyed.
runProgram2Fork(mmapOk, forkOk) ==
    /\ r2.pc = "fork"
    /\ ~sp.cloneFlags => mmapOk
    /\ StartProcess(spSlot, mmapOk, forkOk)
    /\ IF sp'.result = "returned"
       THEN /\ r2' = [r2 EXCEPT !.pc = "close"]
            /\ UNCHANGED <<fds, logger>>
       ELSE /\ r2' = [r2 EXCEPT !.pc = "done", !.result = sp'.result]
            /\ logger' = LeaveScope(logger, r2.deferred)
            /\ fds' = PipeDtor(fds)
    /\ UNCHANGED <<call, ret, interrupted, runVars, dec, ku, ro, stream, prog>>

\* out.writeSide.close()
runProgram2CloseWriteSide ==
    /\ r2.pc = "close"
    /\ fds' = CloseWriteSide(fds)
    /\ r2' = [r2 EXCEPT !.pc = "return"]
    /\ UNCHANGED <<pidVars, runVars, dec, ku, sp, child, ro, logger, stream, prog>>

\* return RunningProgram{...}: pid is moved into it, with the read side when
\* captureStdout; the locals pid (now empty), resumeLoggerDefer and out are
\* destroyed.
runProgram2Return ==
    /\ r2.pc = "return"
    /\ handles' = [handles EXCEPT ![rp2Slot] = MoveCtor(handles[spSlot]), ![spSlot] = NoPid]
    /\ fds' = PipeDtor(MoveReadSide(fds, ro.captureStdout))
    /\ logger' = LeaveScope(logger, r2.deferred)
    /\ stream' = [stream EXCEPT !.has = ro.captureStdout]
    /\ r2' = [r2 EXCEPT !.pc = "done", !.result = "RunningProgram"]
    /\ UNCHANGED <<procs, nextPid, call, ret, interrupted, runVars, dec, ku, sp, child, ro, prog>>

\* The child, while it lives, holds the write end it got by fork.
ChildHoldsWriteEnd ==
    fds.writeSide # "none" /\ child.pc # "none" /\ procs[sp.pid].st = "running"

\* Some write end of the pipe is open: the read end sees no end of file.
WriteEndOpen == fds.writeSide \in {"open", "moved"} \/ ChildHoldsWriteEnd

\* The executed program writes the next byte to its standard output.
ProgramWrites ==
    /\ ChildAlive /\ child.pc = "program"
    /\ prog.written < Len(prog.out)
    /\ prog' = [prog EXCEPT !.written = @ + 1]
    /\ fds' = IF child.stdout = "pipe"
              THEN [fds EXCEPT !.queue = Append(@, prog.out[prog.written + 1])]
              ELSE fds
    /\ UNCHANGED <<pidVars, runVars, dec, ku, sp, child, ro, r2, logger, stream>>

\* The executed program ends, having written its output.
ProgramEnds(t) ==
    /\ ChildAlive /\ child.pc = "program"
    /\ prog.written = Len(prog.out)
    /\ procs' = [procs EXCEPT ![sp.pid] = [st |-> "zombie", term |-> t]]
    /\ child' = [child EXCEPT !.pc = "programEnded"]
    /\ UNCHANGED <<handles, nextPid, call, ret, interrupted, runVars, dec, ku, sp, ro, run2Vars>>

\* The caller reads a byte from getStdout().
StreamRead ==
    /\ stream.has /\ ~stream.eof /\ stream.wait = "none"
    /\ fds.queue # <<>>
    /\ stream' = [stream EXCEPT !.got = Append(@, Head(fds.queue))]
    /\ fds' = [fds EXCEPT !.queue = Tail(@)]
    /\ UNCHANGED <<pidVars, runVars, dec, ku, sp, child, ro, r2, logger, prog>>

\* The caller's read returns 0: the pipe is empty and no write end is open.
StreamEof ==
    /\ stream.has /\ ~stream.eof /\ stream.wait = "none"
    /\ fds.queue = <<>> /\ ~WriteEndOpen
    /\ stream' = [stream EXCEPT !.eof = TRUE]
    /\ UNCHANGED <<pidVars, runVars, dec, ku, sp, child, ro, r2, fds, logger, prog>>

\* The caller, with no exception propagating, calls RunningProgram::wait(),
\* after the end of the stream if it has one: pid.wait() is entered.
CallerWaits ==
    /\ r2.result = "RunningProgram" /\ stream.wait = "none"
    /\ stream.has => stream.eof
    /\ RpWaits(0)
    /\ EnterWait(rp2Slot, handles[rp2Slot], "wait")
    /\ stream' = [stream EXCEPT !.wait = "called"]
    /\ UNCHANGED <<handles, nextPid, interrupted, runVars, dec, ku, sp, child, ro, r2, fds,
                   logger, prog>>

\* RunningProgram::wait() ends: what pid.wait() threw, ExecError for a
\* status that is not 0, or a normal return.
CallerWaitEnds ==
    /\ stream.wait = "called" /\ call.op = "none"
    /\ stream' = [stream EXCEPT !.wait = IF RpRaised("wait", ret) = "none" THEN "returned"
                                         ELSE RpRaised("wait", ret)]
    /\ UNCHANGED <<pidVars, runVars, dec, ku, sp, child, ro, r2, fds, logger, prog>>

\* The RunOptions of a call: the members the parent reads, and the program.
R2Options ==
    {[NoRo EXCEPT !.program = p, !.captureStdout = c, !.mergeStderrToStdout = m,
                  !.isInteractive = i] :
         p \in Programs, c \in BOOLEAN, m \in BOOLEAN, i \in BOOLEAN}

InitRun2 ==
    /\ InitHandles
    /\ RunOff
    /\ KillUserOff
    /\ StatusOff
    /\ sp = DefaultProcessOptions
    /\ child = NoChild
    /\ ro \in R2Options
    /\ r2 = [NoR2 EXCEPT !.pc = "start"]
    /\ fds = NoFds
    /\ logger = NoLogger
    /\ stream = NoStream
    /\ \E o \in Outputs : prog = [NoProg EXCEPT !.out = o]

\* What the parent, the caller and the child do when all goes well.
Run2Progress ==
    \/ \E forkOk \in BOOLEAN : runProgram2Fork(TRUE, forkOk)
    \/ runProgram2CloseWriteSide
    \/ runProgram2Return
    \/ \E prctlOk \in BOOLEAN : ChildWrapperEnter(prctlOk)
    \/ \E ok \in BOOLEAN : ChildStep(ok)
    \/ \E writeOk \in BOOLEAN : ChildCatch(writeOk)
    \/ ChildWrapperEnds
    \/ ProgramWrites
    \/ \E t \in Terms : ProgramEnds(t)
    \/ StreamRead
    \/ StreamEof
    \/ CallerWaits
    \/ CallerWaitEnds
    \/ WaitpidReturns

NextRun2 ==
    \/ \E pipeOk \in BOOLEAN : runProgram2Begin(pipeOk)
    \/ Run2Progress
    \/ WaitpidEINTR
    \/ WaitpidFails
    \/ RequestInterrupt

SpecRun2 == InitRun2 /\ [][NextRun2]_vars

\* The operating system schedules parent and child, and each of their steps
\* ends: a step that can be taken is taken.
SpecRun2Live == SpecRun2 /\ WF_vars(Run2Progress)

(* ===================== the claims about runProgram2 =================== *)

\* The parent holds an open write end of the pipe, in `out` or in the
\* RunningProgram.
ParentHoldsWriteEnd == fds.writeSide \in {"open", "moved"}

\* C11: with captureStdout the parent gives up its write end of the pipe
\* only when startProcess has returned (or has thrown, with the scope left),
\* it holds none when the RunningProgram is returned, hence at every read of
\* the stream, and it holds none after any return or failure of runProgram2.
C11_WriteEndClosedAfterFork ==
    /\ [][(ParentHoldsWriteEnd /\ ~ParentHoldsWriteEnd') =>
              (sp.result = "returned" \/ sp'.result \in {"SysError", "Error"})]_vars
    /\ []((r2.result = "RunningProgram") => ~ParentHoldsWriteEnd)
    /\ []((stream.has \/ stream.got # <<>> \/ stream.eof) => ~ParentHoldsWriteEnd)
    /\ []((r2.pc = "done") => ~ParentHoldsWriteEnd)
    /\ []((ro.captureStdout /\ r2.pc \in {"fork", "close"}) => fds.writeSide = "open")

\* The RunningProgram was returned with the read side, the write side is
\* closed, and the caller has read from the stream.
C11_Witness ==
    /\ r2.result = "RunningProgram" /\ fds.readSide = "moved" /\ fds.writeSide = "closed"
    /\ stream.got # <<>>

\* The fork failed: both sides of the pipe are closed.
C11_WitnessFailed ==
    /\ r2.result = "SysError" /\ sp.forked = "failed"
    /\ fds.readSide = "closed" /\ fds.writeSide = "closed"

\* C12: for a child spawned with captured stdout whose program writes N
\* bytes and exits with code 0, the stream yields those bytes in order and
\* nothing else, the end of the stream is reported once the child has ended
\* (no write end being held by the parent), and the wait() that follows
\* returns without raising, unless the wait itself is interrupted or fails.
C12_StreamThenEofThenWait ==
    /\ []((stream.has /\ child.end = "exec") =>
              /\ Len(stream.got) <= Len(prog.out)
              /\ stream.got = SubSeq(prog.out, 1, Len(stream.got)))
    /\ []((stream.eof /\ child.end = "exec") =>
              (stream.got = prog.out /\ procs[sp.pid].st # "running"))
    /\ [](stream.has => ~ParentHoldsWriteEnd)
    /\ (stream.has /\ procs[sp.pid].st # "running") ~> stream.eof
    /\ (stream.eof /\ CleanExit(procs[sp.pid].term)) ~>
           (stream.wait = "returned" \/ interrupted \/ ret.kind = "SysError")
    /\ []((stream.wait \in {"returned", "ExecError"}) =>
              ((stream.wait = "returned") <=> CleanExit(procs[sp.pid].term)))
    /\ []((stream.wait = "Interrupted") => interrupted)

\* The program wrote two bytes and exited with code 0; the caller read them,
\* saw the end of the stream, and wait() returned.
C12_Witness ==
    /\ child.end = "exec" /\ procs[sp.pid].term = Exited(0)
    /\ Len(prog.out) > 1 /\ stream.got = prog.out /\ stream.eof
    /\ stream.wait = "returned"

\* C13: with isInteractive the logger is paused before the child is spawned
\* and resumed once when runProgram2 returns or startProcess fails; at every
\* exit of runProgram2 the calls of pause and resume are balanced; without
\* isInteractive the logger is neither paused nor resumed.
C13_LoggerPausedAndResumed ==
    /\ [](~ro.isInteractive => logger = NoLogger)
    /\ [](logger.resumes <= logger.pauses /\ logger.pauses <= 1)
    /\ [](logger.paused <=> (logger.pauses = 1 /\ logger.resumes = 0))
    /\ [][(ro.isInteractive /\ sp.result = "none" /\ sp'.result # "none") =>
              (logger.paused /\ logger.pauses = 1)]_vars
    /\ []((r2.pc # "done") => logger.resumes = 0)
    /\ []((r2.pc = "done") => (logger.pauses = logger.resumes /\ ~logger.paused))
    /\ []((ro.isInteractive /\ r2.pc = "done" /\ sp.result # "none") =>
              (logger.pauses = 1 /\ logger.resumes = 1))

\* An interactive call whose fork failed: paused once, resumed once.
C13_Witness ==
    /\ ro.isInteractive /\ r2.result = "SysError" /\ sp.forked = "failed"
    /\ logger = [paused |-> FALSE, pauses |-> 1, resumes |-> 1]

\* An interactive call that returned the RunningProgram.
C13_WitnessReturned ==
    /\ ro.isInteractive /\ r2.result = "RunningProgram"
    /\ logger = [paused |-> FALSE, pauses |-> 1, resumes |-> 1]

(* ============================== killUser ============================== *)

\* The largest number of processes running under the uid.
MaxVictims == 2

\* The uids killUser is called with: root, and a build user.
Uids == {0, 1000}

\* A killUser without the assert.
UidAllowedAlways(uid) == TRUE

\* killUser: assert(uid != 0)
UidAllowed(uid) == uid # 0

\* A killUser that takes every status of the helper for success.
KillUserThrowsNever(status) == FALSE

\* killUser: if (status != 0) throw Error(...)
KillUserThrows(status) == status # 0

\* Error("cannot kill processes for uid '%1%': %2%", uid, statusToString(status))
KillUserText(uid, status) ==
    "cannot kill processes for uid '" \o ToString(uid) \o "': " \o statusToString(status)

\* A helper that leaves its loop after an interrupted broadcast too.
LoopEndsAlways(r) == TRUE

\* The helper's loop: break after kill() == 0 and after ESRCH / EPERM.
LoopEnds(r) == r \in {"ok", "ESRCH", "EPERM"}

\* The helper's loop: what is neither a break nor EINTR is thrown.
LoopThrows(r) == ~LoopEnds(r) /\ r # "EINTR"

\* What kill(-1, SIGKILL) may give: 0 when the signal was sent to a process,
\* ESRCH or EPERM when there is none the caller may signal, EINTR, or an
\* error none of these ("other").
KillResults == {"ok", "ESRCH", "EPERM", "EINTR", "other"}

\* killUser up to the fork: debug, the assert, startProcess.
killUser(forkOk) ==
    /\ ku.pc = "start"
    /\ IF ~UidAllowed(ku.uid)
       THEN /\ ku' = [ku EXCEPT !.pc = "done", !.result = "assert"]
            /\ UNCHANGED <<handles, procs, nextPid, sp, child>>
       ELSE /\ StartProcess(spSlot, TRUE, forkOk)
            /\ ku' = IF sp'.result = "returned" THEN [ku EXCEPT !.pc = "forked"]
                     ELSE [ku EXCEPT !.pc = "done", !.result = sp'.result]
    /\ UNCHANGED <<call, ret, interrupted, runVars, dec, ro, run2Vars>>

\* int status = pid.wait(): the wait is entered.
killUserWaits ==
    /\ ku.pc = "forked"
    /\ EnterWait(spSlot, handles[spSlot], "wait")
    /\ ku' = [ku EXCEPT !.pc = "waiting"]
    /\ UNCHANGED <<handles, nextPid, interrupted, runVars, dec, sp, child, ro, run2Vars>>

\* pid.wait() ended.  With a status: Error for a status that is not 0, else
\* the return; `pid` is empty when destroyed.  With an exception: `pid` still
\* owns the helper, and ~Pid enters kill() while the exception propagates.
killUserWaitEnds ==
    /\ ku.pc = "waiting" /\ call.op = "none"
    /\ IF ret.kind = "status"
       THEN /\ ku' = [ku EXCEPT !.pc = "done", !.status = ret.status,
                                !.result = IF KillUserThrows(ret.status) THEN "Error"
                                           ELSE "returned",
                                !.text = IF KillUserThrows(ret.status)
                                         THEN KillUserText(ku.uid, ret.status) ELSE ""]
            /\ handles' = [handles EXCEPT ![spSlot] = NoPid]
            /\ UNCHANGED <<procs, call, ret>>
       ELSE /\ ku' = [ku EXCEPT !.pc = "unwinding", !.result = ret.kind]
            /\ \E ok \in BOOLEAN : EnterKill(spSlot, handles[spSlot], "dtor", ok)
            /\ UNCHANGED handles
    /\ UNCHANGED <<nextPid, interrupted, runVars, dec, sp, child, ro, run2Vars>>

\* ~Pid ended while the exception of pid.wait() propagates: that exception
\* goes on to the caller, unless the destructor threw one too (terminate).
killUserUnwound ==
    /\ ku.pc = "unwinding" /\ call.op = "none"
    /\ ku' = [ku EXCEPT !.pc = "done",
                        !.result = IF ret.kind = "status" THEN @ ELSE "terminate"]
    /\ UNCHANGED <<pidVars, runVars, dec, sp, child, ro, run2Vars>>

\* The helper's callback, first statement: setuid(uid), a failure is thrown.
HelperSetuid(ok) ==
    /\ ChildAlive /\ child.pc = "fun" /\ sp.fun = "killUser" /\ child.pos = 0
    /\ IF ok
       THEN /\ ku' = [ku EXCEPT !.switched = TRUE]
            /\ child' = [child EXCEPT !.pos = 1]
       ELSE /\ child' = [child EXCEPT !.pc = "thrown", !.thrown = "std",
                                      !.outcome = "threwStd"]
            /\ UNCHANGED ku
    /\ UNCHANGED <<pidVars, runVars, dec, sp, ro, run2Vars>>

\* One round of the helper's loop: kill(-1, SIGKILL) gives r.  After a break
\* the helper does _exit(0).
HelperKill(r) ==
    /\ ChildAlive /\ child.pc = "fun" /\ sp.fun = "killUser" /\ child.pos = 1
    /\ r = "ok" => ku.victims > 0
    /\ r \in {"ESRCH", "EPERM"} => ku.victims = 0
    /\ r = "EINTR" => ku.eintr < MaxRetries
    /\ ku' = IF r = "ok" THEN [ku EXCEPT !.victims = 0, !.killed = @ + ku.victims]
             ELSE IF r = "EINTR" THEN [ku EXCEPT !.eintr = @ + 1]
             ELSE ku
    /\ IF LoopEnds(r)
       THEN /\ child' = [child EXCEPT !.pc = "helperDone", !.end = "_exit"]
            /\ procs' = [procs EXCEPT ![sp.pid] = [st |-> "zombie", term |-> Exited(0)]]
       ELSE IF LoopThrows(r)
       THEN /\ child' = [child EXCEPT !.pc = "thrown", !.thrown = "std",
                                      !.outcome = "threwStd"]
            /\ UNCHANGED procs
       ELSE UNCHANGED <<child, procs>>
    /\ UNCHANGED <<handles, nextPid, call, ret, interrupted, runVars, dec, sp, ro, run2Vars>>

\* A process running under the uid forks.
VictimForks ==
    /\ ku.victims \in 1..(MaxVictims - 1)
    /\ ku' = [ku EXCEPT !.victims = @ + 1]
    /\ UNCHANGED <<pidVars, runVars, dec, sp, child, ro, run2Vars>>

InitKillUser ==
    /\ InitHandles
    /\ RunOff
    /\ StatusOff
    /\ Run2Off
    /\ sp = [DefaultProcessOptions EXCEPT !.fun = "killUser"]
    /\ child = NoChild
    /\ ro = NoRo
    /\ \E u \in Uids, v \in {0, 1} :
           ku = [NoKu EXCEPT !.pc = "start", !.uid = u, !.victims = v]

\* What killUser and its helper do when nothing interrupts them.
KillUserProgress ==
    \/ \E forkOk \in BOOLEAN : killUser(forkOk)
    \/ killUserWaits
    \/ killUserWaitEnds
    \/ killUserUnwound
    \/ \E prctlOk \in BOOLEAN : ChildWrapperEnter(prctlOk)
    \/ \E ok \in BOOLEAN : HelperSetuid(ok)
    \/ \E r \in KillResults \ {"EINTR"} : HelperKill(r)
    \/ \E writeOk \in BOOLEAN : ChildCatch(writeOk)
    \/ ChildWrapperEnds
    \/ WaitpidReturns

NextKillUser ==
    \/ KillUserProgress
    \/ HelperKill("EINTR")
    \/ VictimForks
    \/ \E p \in Pids : ChildTerminates(p, Signaled(11, TRUE))
    \/ WaitpidEINTR
    \/ WaitpidFails
    \/ RequestInterrupt

SpecKillUser == InitKillUser /\ [][NextKillUser]_vars

\* The operating system schedules killUser and its helper, and a system call
\* that is not interrupted ends.
SpecKillUserLive == SpecKillUser /\ WF_vars(KillUserProgress)

(* ======================= the claims about killUser ==================== *)

\* The helper has ended with exit status 0.
HelperExited0 ==
    sp.pid \in Pids /\ procs[sp.pid].st # "running" /\ CleanExit(procs[sp.pid].term)

\* The helper's callback threw (setuid failed, or kill failed with an error
\* that is neither EINTR nor ESRCH / EPERM) and the helper has ended.
HelperFailed == child.thrown = "std" /\ child.pc = "ended"

\* C14: the helper first switches to uid, then broadcasts SIGKILL until a
\* broadcast is not interrupted; it exits with status 0 only when it runs as
\* uid and no process that it may signal remains; an interrupted broadcast
\* is retried with nothing changed; a failed setuid or any other error makes
\* it exit with a status that is not 0; and when interruptions do not go on
\* for ever, the helper ends.
C14_HelperBroadcastsUntilNoneLeft ==
    /\ [](HelperExited0 => (ku.switched /\ ku.victims = 0))
    /\ [](~ku.switched => ku.killed = 0)
    /\ [][ku'.eintr # ku.eintr =>
              /\ ku'.eintr = ku.eintr + 1
              /\ child' = child /\ procs' = procs /\ ku'.victims = ku.victims
              /\ ku'.killed = ku.killed]_vars
    /\ [](HelperFailed =>
              (procs[sp.pid].term.how = "exit" /\ procs[sp.pid].term.n # 0))
    /\ []((child.pc = "thrown" /\ child.pos = 0) => ~ku.switched)
    /\ (child.pc \in {"wrapper", "fun", "thrown", "afterTry"}) ~>
           (sp.pid \in Pids /\ procs[sp.pid].st # "running")

\* The helper was interrupted once, then its broadcast reached two
\* processes, and it exited with status 0.
C14_Witness ==
    /\ HelperExited0 /\ ku.eintr = 1 /\ ku.killed = 2 /\ ku.victims = 0
    /\ child.pc = "helperDone"

\* C15: killUser for a uid other than 0 waits for the helper; when that wait
\* gives a status, killUser returns iff the helper exited with code 0, and
\* otherwise throws Error with the uid and the decoded status; in both cases
\* the helper has been reaped.  It returns in no other case.
C15_ReturnsIffHelperOk ==
    /\ (ku.pc = "done" /\ ku.status # -1) =>
           LET t == procs[sp.pid].term
           IN /\ ku.status = WaitStatus(t)
              /\ (ku.result = "returned") <=> CleanExit(t)
              /\ ~CleanExit(t) =>
                     /\ ku.result = "Error"
                     /\ ku.text = "cannot kill processes for uid '" \o ToString(ku.uid)
                                      \o "': " \o TermText(t)
              /\ procs[sp.pid].st = "reaped"
              /\ \A h \in Slots : handles[h].pid = -1
    /\ ku.result \in {"returned", "Error"} => (ku.status # -1 /\ ku.uid # 0)
    /\ (ku.pc \in {"waiting", "unwinding"}) => ku.uid # 0

\* The helper could not switch to the uid: killUser threw Error with the
\* decoded status.
C15_Witness ==
    /\ ku.pc = "done" /\ ku.result = "Error" /\ ~ku.switched
    /\ ku.text = "cannot kill processes for uid '1000': failed with exit code 1"

\* The helper was killed by a signal: killUser threw Error.
C15_WitnessSignal ==
    /\ ku.pc = "done" /\ ku.result = "Error"
    /\ ku.text = "cannot kill processes for uid '1000': failed due to signal 11"

\* C16: killUser(0) fails at once by its assert: no helper is spawned, no
\* setuid is done and no signal is sent.
C16_RootIsRefused ==
    ku.uid = 0 =>
        /\ ku.pc = "done" => ku.result = "assert"
        /\ ku.pc \in {"start", "done"}
        /\ sp.forked = "none" /\ child = NoChild
        /\ \A p \in Pids : procs[p].st = "none"
        /\ \A h \in Slots : handles[h] = NoPid
        /\ call = NoCall
        /\ ~ku.switched /\ ku.killed = 0

\* killUser(0) has failed, with a process around that a broadcast would reach.
C16_Witness ==
    ku.uid = 0 /\ ku.pc = "done" /\ ku.result = "assert" /\ ku.victims > 0

(* ============ Pid::wait alone, under a fair waitpid =================== *)

\* The one Pid object of this behaviour.
waitSlot == 1

\* One caller object that is given a child, waits for it or kills it, and is
\* destroyed; the child ends in any of the ways of Terms.
NextWait ==
    \/ PidSpawn(waitSlot)
    \/ PidWait(waitSlot)
    \/ PidKill(waitSlot)
    \/ PidDtor(waitSlot)
    \/ \E b \in BOOLEAN : PidSetSeparatePG(waitSlot, b)
    \/ WaitpidReturns
    \/ WaitpidEINTR
    \/ WaitpidFails
    \/ \E p \in Pids, t \in Terms : ChildTerminates(p, t)
    \/ RequestInterrupt

SpecWait == InitPid /\ [][NextWait]_vars

\* waitpid(pid, &status, 0) on a child that has ended does return.
SpecWaitLive == SpecWait /\ WF_vars(WaitpidReturns)

\* What <sys/wait.h> reads from status is the termination t.
StatusTells(status, t) ==
    IF t.how = "exit" THEN WIFEXITED(status) /\ WEXITSTATUS(status) = t.n
    ELSE /\ WIFSIGNALED(status) /\ WTERMSIG(status) = t.n
         /\ (status % 256 >= 128) = t.core

\* wait() is in its loop for process p, which has ended.
WaitingForEnded(p) ==
    /\ call.op = "wait" /\ handles[call.h].pid = p
    /\ procs[p].st = "zombie"

\* wait() has left its loop with the status of p, or with the error of a
\* failed waitpid.
WaitEndedFor(p) ==
    /\ call.op = "none" /\ ret.op = "wait"
    /\ \/ ret.kind = "status" /\ procs[p].st = "reaped" /\ StatusTells(ret.status, procs[p].term)
       \/ ret.kind = "SysError" /\ ret.status = -1

\* C21: wait() does not go round its loop for ever: once the owned process
\* has ended, wait() comes to return the status of that process (or the error
\* of a waitpid that failed); with an interrupt requested no step of the loop
\* is a retry, an interrupted waitpid raises Interrupted at the check that
\* follows it, and Interrupted carries no status and is no other error.
C21_WaitEnds ==
    /\ \A p \in Pids : WaitingForEnded(p) ~> WaitEndedFor(p)
    /\ [][(WaitStep("wait") /\ interrupted) => call'.op = "none"]_vars
    /\ [][(WaitStep("wait") /\ interrupted /\ procs[handles[call.h].pid].st = "running"
              /\ ret'.kind # "SysError") =>
             ret' = Done("wait", "Interrupted", -1)]_vars
    /\ [](ret.kind = "Interrupted" => (interrupted /\ ret.status = -1))

\* wait() has returned the status of a child that a signal ended with a core
\* dump.
C21_Witness ==
    /\ ret.op = "wait" /\ ret.kind = "status" /\ ret.status = 139
    /\ procs[1].st = "reaped" /\ procs[1].term = Signaled(11, TRUE)

\* wait() was interrupted with an interrupt requested and raised Interrupted.
C21_WitnessInterrupted ==
    /\ ret = Done("wait", "Interrupted", -1)
    /\ handles[waitSlot].pid = 1 /\ procs[1].st = "running"

(* ============== what an exception of Pid::wait leaves ================= *)

\* The exceptions that leave the loop of Pid::wait.
WaitRaises == {"Interrupted", "SysError"}

\* wait(), called by the caller or by kill(), is left by an exception.
RaisingStep(op) == WaitStep(op) /\ ret'.op = op /\ ret'.kind \in WaitRaises

\* The object still holds the process id, separatePG and killSignal it held,
\* and the process is as it was: not reaped.
StillOwning ==
    /\ handles'[call.h] = handles[call.h]
    /\ handles'[call.h].live /\ handles'[call.h].pid # -1
    /\ UNCHANGED <<handles, procs>>
    /\ procs'[handles'[call.h].pid].st \in {"running", "zombie"}

\* wait(), kill() or the destructor, called for h after such an exception,
\* is about the process h held when it was raised.
ActsOnOwned(h) ==
    /\ PidWait(h) =>
           call'.op = "wait" /\ call'.h = h /\ handles'[h].pid = handles[h].pid
    /\ (PidKill(h) \/ (PidDtor(h) /\ handles[h].pid # -1)) =>
           /\ call'.h = h /\ handles'[h].pid = handles[h].pid
           /\ call'.target = ConfiguredTarget(handles[h])
           /\ call'.sig = handles[h].killSignal

\* C22: when wait(), called directly or by kill(), is left by Interrupted or
\* by the "cannot get exit status" error, the handle still owns the same
\* process id with the same separatePG and killSignal and the process is not
\* reaped, so the wait(), kill() or destruction that follows is about that
\* same process.
C22_RaiseKeepsOwnership ==
    /\ [][\A op \in {"wait", "kill"} : RaisingStep(op) => StillOwning]_vars
    /\ []((ret.kind \in WaitRaises /\ ret.op \in {"wait", "kill"}) =>
             \E h \in Clients : handles[h].pid # -1)
    /\ [][\A h \in Clients :
             (ret.kind \in WaitRaises /\ ret.op \in {"wait", "kill"}) => ActsOnOwned(h)]_vars

\* kill() was left by Interrupted: the handle owns process 1 as before, with
\* the process group and the signal it was configured with.
C22_Witness ==
    /\ ret = Done("kill", "Interrupted", -1)
    /\ \E h \in Clients :
           /\ handles[h].pid = 1 /\ handles[h].separatePG /\ handles[h].killSignal = 15
    /\ procs[1].st = "running"

\* wait() was left by the error of a failed waitpid, the child having ended.
C22_WitnessFailed ==
    /\ ret = Done("wait", "SysError", -1)
    /\ handles[2].pid = 1 /\ procs[1].st = "zombie"

(* ================= Pid::operator= onto an owning Pid ================== *)

\* d = std::move(s), d owning a process of its own: d and s are as after a
\* move, and kill() is entered for the process d held, now in tmp.
AssignOntoOwning ==
    \A d, s \in Clients :
        (PidMoveAssign(d, s) /\ d # s /\ handles[d].pid # -1) =>
            /\ handles'[d].pid = handles[s].pid /\ handles'[s].pid = -1
            /\ handles'[0].pid = handles[d].pid
            /\ call'.op = "assign" /\ call'.h = 0
            /\ call'.sig = handles[d].killSignal
            /\ call'.target = ConfiguredTarget(handles[d])

\* d = std::move(d): d is as it was, no signal is sent and nothing is waited
\* for.
AssignOntoSelf ==
    \A d \in Clients :
        PidMoveAssign(d, d) =>
            /\ handles' = handles
            /\ ret' = Done("assign", "void", -1)
            /\ UNCHANGED <<procs, call>>

\* tmp is gone and no Pid object holds the process tmp held.
TmpGone ==
    /\ handles' = [handles EXCEPT ![0] = NoPid]
    /\ \A h \in Slots : handles'[h].pid # handles[0].pid

\* C23, as stated: move assignment onto an owning handle kills and reaps the
\* process the destination held before the assignment is over, and a move
\* assignment of a handle onto itself leaves it owning the same process and
\* sends no signal.
C23_AssignReaps ==
    /\ [][AssignOntoOwning /\ AssignOntoSelf]_vars
    /\ [][(WaitStep("assign") /\ call'.op = "none") =>
             procs'[handles[call.h].pid].st = "reaped"]_vars

\* C23, amended: move assignment onto an owning handle does kill() on the
\* process the destination held: the signal is sent and wait() follows; when
\* that wait returns the process has been reaped, and when it raises (an
\* interrupt after EINTR, a waitpid error) the exception leaves operator= with
\* the destination already holding the source's process and the old process
\* signalled, not reaped and held by no handle.  A move assignment of a
\* handle onto itself leaves it owning the same process and sends no signal.
C23_AssignKills ==
    /\ [][AssignOntoOwning /\ AssignOntoSelf]_vars
    /\ [][WaitStep("assign") =>
             \/ WaitStepReturns /\ TmpGone
             \/ WaitStepRetries
             \/ WaitStepRaises /\ TmpGone]_vars

\* An assignment onto the owner of process 1 has returned: process 1 was
\* killed and reaped, and the destination holds process 2.
C23_Witness ==
    /\ ret.op = "assign" /\ ret.kind = "status"
    /\ procs[1].st = "reaped" /\ procs[1].term = Signaled(SIGKILL, FALSE)
    /\ \E d \in Clients : handles[d].pid = 2 /\ procs[2].st = "running"

\* Both handles own a process after an assignment that killed nothing: a
\* handle was assigned onto itself.
C23_WitnessSelf ==
    /\ ret = Done("assign", "void", -1)
    /\ handles[1].pid # -1 /\ handles[2].pid # -1
    /\ procs[1].st = "running" /\ procs[2].st = "running"

\* The wait inside operator= raised: the old process is neither reaped nor
\* held by any handle.
C23_WitnessRaised ==
    /\ ret.op = "assign" /\ ret.kind \in WaitRaises
    /\ procs[1].st = "running"
    /\ \A h \in Slots : handles[h].pid # 1
    /\ \E d \in Clients : handles[d].pid = 2

=============================================================================
